---- MODULE Spec2Model ----
(* Model of maljos/booleanfield: the packed (not_null, default, value)     *)
(* state codec of src/booleanfield_dod.rs and the field operations          *)
(* (BooleanOps) that work on one encoded byte.                              *)
EXTENDS Integers, Sequences, FiniteSets, TLC

(* ---------------------------------------------------------------------- *)
(* Bounds and program constants                                            *)
(* ---------------------------------------------------------------------- *)

\* Number of independent field instances the modelled program holds.
NumFields == 2

\* Largest value of the u8 that PackedBooleanData wraps.
U8Max == 255

Fields == 1..NumFields
U8 == 0..U8Max

(* ---------------------------------------------------------------------- *)
(* OptionBool and Option<bool>                                             *)
(* ---------------------------------------------------------------------- *)

True == "True"
False == "False"
Null == "Null"

\* enum OptionBool { True, False, Null }
OptionBool == {True, False, Null}

\* Option<bool>: Some(x) is the one-element sequence, None the empty one.
Some(x) == <<x>>
None == <<>>
OptionOfBool == {Some(TRUE), Some(FALSE), None}

\* impl From<Option<bool>> for OptionBool
FromOption(opt) ==
  CASE opt = Some(TRUE) -> True
    [] opt = Some(FALSE) -> False
    [] OTHER -> Null

\* impl From<OptionBool> for Option<bool>
IntoOption(ob) ==
  CASE ob = True -> Some(TRUE)
    [] ob = False -> Some(FALSE)
    [] OTHER -> None

(* ---------------------------------------------------------------------- *)
(* Result<T, &'static str>                                                 *)
(* ---------------------------------------------------------------------- *)

Ok(x) == [tag |-> "Ok", val |-> x]
Err(e) == [tag |-> "Err", msg |-> e]
IsOk(r) == r.tag = "Ok"
IsErr(r) == r.tag = "Err"

(* ---------------------------------------------------------------------- *)
(* State codec                                                             *)
(* ---------------------------------------------------------------------- *)

\* Position of an OptionBool in a two-bit slot of the byte.
Slot(ob) == CASE ob = False -> 0 [] ob = True -> 1 [] OTHER -> 2

\* encode_state computed from the bit layout, with no allow-list.
encode_state_arith(not_null, default, value) ==
  Ok((IF not_null THEN 16 ELSE 0) + 4 * Slot(default) + Slot(value))

\* encode_state with the code of (false, Null, True) mistyped as 11.
encode_state_typo(not_null, default, value) ==
  LET t == <<not_null, default, value>> IN
  CASE t = <<FALSE, False, False>> -> Ok(0)
    [] t = <<FALSE, False, True>> -> Ok(1)
    [] t = <<FALSE, False, Null>> -> Ok(2)
    [] t = <<FALSE, True, False>> -> Ok(4)
    [] t = <<FALSE, True, True>> -> Ok(5)
    [] t = <<FALSE, True, Null>> -> Ok(6)
    [] t = <<FALSE, Null, False>> -> Ok(8)
    [] t = <<FALSE, Null, True>> -> Ok(11)
    [] t = <<FALSE, Null, Null>> -> Ok(10)
    [] t = <<TRUE, False, False>> -> Ok(16)
    [] t = <<TRUE, False, True>> -> Ok(17)
    [] t = <<TRUE, True, False>> -> Ok(20)
    [] t = <<TRUE, True, True>> -> Ok(21)
    [] OTHER -> Err("Invalid state combination")

\* fn encode_state(not_null, default, value) -> Result<u8, &'static str>
encode_state(not_null, default, value) ==
  LET t == <<not_null, default, value>> IN
  CASE t = <<FALSE, False, False>> -> Ok(0)
    [] t = <<FALSE, False, True>> -> Ok(1)
    [] t = <<FALSE, False, Null>> -> Ok(2)
    [] t = <<FALSE, True, False>> -> Ok(4)
    [] t = <<FALSE, True, True>> -> Ok(5)
    [] t = <<FALSE, True, Null>> -> Ok(6)
    [] t = <<FALSE, Null, False>> -> Ok(8)
    [] t = <<FALSE, Null, True>> -> Ok(9)
    [] t = <<FALSE, Null, Null>> -> Ok(10)
    [] t = <<TRUE, False, False>> -> Ok(16)
    [] t = <<TRUE, False, True>> -> Ok(17)
    [] t = <<TRUE, True, False>> -> Ok(20)
    [] t = <<TRUE, True, True>> -> Ok(21)
    [] OTHER -> Err("Invalid state combination")

\* decode_state with the row of code 17 mistyped as the row of code 20.
decode_state_typo(state) ==
  CASE state = 0 -> Ok(<<FALSE, False, False>>)
    [] state = 1 -> Ok(<<FALSE, False, True>>)
    [] state = 2 -> Ok(<<FALSE, False, Null>>)
    [] state = 4 -> Ok(<<FALSE, True, False>>)
    [] state = 5 -> Ok(<<FALSE, True, True>>)
    [] state = 6 -> Ok(<<FALSE, True, Null>>)
    [] state = 8 -> Ok(<<FALSE, Null, False>>)
    [] state = 9 -> Ok(<<FALSE, Null, True>>)
    [] state = 10 -> Ok(<<FALSE, Null, Null>>)
    [] state = 16 -> Ok(<<TRUE, False, False>>)
    [] state = 17 -> Ok(<<TRUE, True, False>>)
    [] state = 20 -> Ok(<<TRUE, True, False>>)
    [] state = 21 -> Ok(<<TRUE, True, True>>)
    [] OTHER -> Err("Invalid packed state")

\* The OptionBool held in a two-bit slot; slot value 3 holds none.
Unslot(n) == CASE n = 0 -> False [] n = 1 -> True [] OTHER -> Null

\* decode_state computed from the bit layout: it rejects only a byte with
\* bits above bit 4 or a slot holding 3, and has no allow-list.
decode_state_arith(state) ==
  IF state >= 32 \/ state % 4 = 3 \/ (state \div 4) % 4 = 3
  THEN Err("Invalid packed state")
  ELSE Ok(<<state \div 16 = 1, Unslot((state \div 4) % 4), Unslot(state % 4)>>)

\* fn decode_state(state: u8) -> Result<(bool, OptionBool, OptionBool), _>
decode_state(state) ==
  CASE state = 0 -> Ok(<<FALSE, False, False>>)
    [] state = 1 -> Ok(<<FALSE, False, True>>)
    [] state = 2 -> Ok(<<FALSE, False, Null>>)
    [] state = 4 -> Ok(<<FALSE, True, False>>)
    [] state = 5 -> Ok(<<FALSE, True, True>>)
    [] state = 6 -> Ok(<<FALSE, True, Null>>)
    [] state = 8 -> Ok(<<FALSE, Null, False>>)
    [] state = 9 -> Ok(<<FALSE, Null, True>>)
    [] state = 10 -> Ok(<<FALSE, Null, Null>>)
    [] state = 16 -> Ok(<<TRUE, False, False>>)
    [] state = 17 -> Ok(<<TRUE, False, True>>)
    [] state = 20 -> Ok(<<TRUE, True, False>>)
    [] state = 21 -> Ok(<<TRUE, True, True>>)
    [] OTHER -> Err("Invalid packed state")

(* ---------------------------------------------------------------------- *)
(* PackedBooleanData                                                       *)
(* ---------------------------------------------------------------------- *)

\* impl Default for PackedBooleanData: Self(10)
DefaultData == 10

\* PackedBooleanData::get_full_state: decode_state(self.0).expect(..).
\* An Err here is the panic of expect(); callers test IsErr first.
get_full_state(data) == decode_state(data)

\* PackedBooleanData::value / default_value / not_null, on a byte whose
\* get_full_state does not panic.
value(data) == IntoOption(get_full_state(data).val[3])
default_value(data) == IntoOption(get_full_state(data).val[2])
not_null(data) == get_full_state(data).val[1]

(* ---------------------------------------------------------------------- *)
(* BooleanOps: outcome of one call                                         *)
(*   panic : the call panicked (expect()/unwrap() on an Err)               *)
(*   data  : the byte held afterwards (mutators) or returned (operators)   *)
(*   ret   : "Ok", or the error string of the returned Err                 *)
(* ---------------------------------------------------------------------- *)

Done(d, r) == [panic |-> FALSE, data |-> d, ret |-> r]
Panicked(d) == [panic |-> TRUE, data |-> d, ret |-> "panic"]

\* BooleanOps::new_data
new_data == DefaultData

\* set_not_null repairing a Null value with False instead of the default.
set_not_null_false_value(data) ==
  LET st == get_full_state(data) IN
  IF IsErr(st) THEN Panicked(data)
  ELSE LET default == IF st.val[2] = Null THEN False ELSE st.val[2]
           val == IF st.val[3] = Null THEN False ELSE st.val[3]
           enc == encode_state(TRUE, default, val)
       IN  IF IsErr(enc) THEN Panicked(data) ELSE Done(enc.val, "Ok")

\* set_not_null passing default and value to encode_state in the wrong order.
set_not_null_swapped(data) ==
  LET st == get_full_state(data) IN
  IF IsErr(st) THEN Panicked(data)
  ELSE LET default == IF st.val[2] = Null THEN False ELSE st.val[2]
           val == IF st.val[3] = Null THEN default ELSE st.val[3]
           enc == encode_state(TRUE, val, default)
       IN  IF IsErr(enc) THEN Panicked(data) ELSE Done(enc.val, "Ok")

\* BooleanOps::set_not_null(data: &mut PackedBooleanData)
set_not_null(data) ==
  LET st == get_full_state(data) IN
  IF IsErr(st) THEN Panicked(data)
  ELSE LET default == IF st.val[2] = Null THEN False ELSE st.val[2]
           val == IF st.val[3] = Null THEN default ELSE st.val[3]
           enc == encode_state(TRUE, default, val)
       IN  IF IsErr(enc) THEN Panicked(data) ELSE Done(enc.val, "Ok")

\* set_default re-encoding with not_null = false instead of the decoded flag.
set_default_drops_not_null(data, new_default) ==
  LET st == get_full_state(data) IN
  IF IsErr(st) THEN Panicked(data)
  ELSE LET new_default_ob == FromOption(Some(new_default))
           val == IF st.val[3] = Null THEN new_default_ob ELSE st.val[3]
           enc == encode_state(FALSE, new_default_ob, val)
       IN  IF IsErr(enc) THEN Panicked(data) ELSE Done(enc.val, "Ok")

\* set_default overwriting the value with the new default even when it is set.
set_default_overwrites(data, new_default) ==
  LET st == get_full_state(data) IN
  IF IsErr(st) THEN Panicked(data)
  ELSE LET new_default_ob == FromOption(Some(new_default))
           enc == encode_state(st.val[1], new_default_ob, new_default_ob)
       IN  IF IsErr(enc) THEN Panicked(data) ELSE Done(enc.val, "Ok")

\* BooleanOps::set_default(data: &mut PackedBooleanData, new_default: bool)
set_default(data, new_default) ==
  LET st == get_full_state(data) IN
  IF IsErr(st) THEN Panicked(data)
  ELSE LET new_default_ob == FromOption(Some(new_default))
           val == IF st.val[3] = Null THEN new_default_ob ELSE st.val[3]
           enc == encode_state(st.val[1], new_default_ob, val)
       IN  IF IsErr(enc) THEN Panicked(data) ELSE Done(enc.val, "Ok")

\* set_value re-encoding with a Null default instead of the decoded default.
set_value_drops_default(data, new_value) ==
  LET st == get_full_state(data) IN
  IF IsErr(st) THEN Panicked(data)
  ELSE LET new_value_ob == FromOption(new_value) IN
       IF st.val[1] /\ new_value_ob = Null
       THEN Done(data, "Field cannot be NULL")
       ELSE LET enc == encode_state(st.val[1], Null, new_value_ob) IN
            IF IsOk(enc) THEN Done(enc.val, "Ok") ELSE Done(data, enc.msg)

\* set_value writing the byte straight from the bit layout, unvalidated.
set_value_unchecked(data, new_value) ==
  LET st == get_full_state(data) IN
  IF IsErr(st) THEN Panicked(data)
  ELSE Done((IF st.val[1] THEN 16 ELSE 0) + 4 * Slot(st.val[2])
              + Slot(FromOption(new_value)), "Ok")

\* set_value without its own NOT NULL test, leaving the rejection to encode_state.
set_value_no_null_check(data, new_value) ==
  LET st == get_full_state(data) IN
  IF IsErr(st) THEN Panicked(data)
  ELSE LET enc == encode_state(st.val[1], st.val[2], FromOption(new_value)) IN
       IF IsOk(enc) THEN Done(enc.val, "Ok") ELSE Done(data, enc.msg)

\* set_value rejecting None whether or not the field is NOT NULL.
set_value_rejects_none(data, new_value) ==
  LET st == get_full_state(data) IN
  IF IsErr(st) THEN Panicked(data)
  ELSE LET new_value_ob == FromOption(new_value) IN
       IF new_value_ob = Null
       THEN Done(data, "Field cannot be NULL")
       ELSE LET enc == encode_state(st.val[1], st.val[2], new_value_ob) IN
            IF IsOk(enc) THEN Done(enc.val, "Ok") ELSE Done(data, enc.msg)

\* BooleanOps::set_value(data: &mut PackedBooleanData, value: Option<bool>)
set_value(data, new_value) ==
  LET st == get_full_state(data) IN
  IF IsErr(st) THEN Panicked(data)
  ELSE LET new_value_ob == FromOption(new_value) IN
       IF st.val[1] /\ new_value_ob = Null
       THEN Done(data, "Field cannot be NULL")
       ELSE LET enc == encode_state(st.val[1], st.val[2], new_value_ob) IN
            IF IsOk(enc) THEN Done(enc.val, "Ok") ELSE Done(data, enc.msg)

\* The three-valued match of BooleanOps::and
and_value(av, bv) ==
  CASE av = Some(TRUE) /\ bv = Some(TRUE) -> Some(TRUE)
    [] bv = Some(FALSE) \/ av = Some(FALSE) -> Some(FALSE)
    [] OTHER -> None

\* The three-valued match of BooleanOps::or
or_value(av, bv) ==
  CASE av = Some(TRUE) \/ bv = Some(TRUE) -> Some(TRUE)
    [] av = Some(FALSE) /\ bv = Some(FALSE) -> Some(FALSE)
    [] OTHER -> None

\* BooleanOps::and(a, b) -> PackedBooleanData
and(a, b) ==
  IF IsErr(get_full_state(a)) \/ IsErr(get_full_state(b)) THEN Panicked(a)
  ELSE LET val == and_value(value(a), value(b))
           st == get_full_state(a)
           enc == encode_state(st.val[1], st.val[2], FromOption(val))
       IN  IF IsErr(enc) THEN Panicked(a) ELSE Done(enc.val, "Ok")

\* BooleanOps::or(a, b) -> PackedBooleanData
or(a, b) ==
  IF IsErr(get_full_state(a)) \/ IsErr(get_full_state(b)) THEN Panicked(a)
  ELSE LET val == or_value(value(a), value(b))
           st == get_full_state(a)
           enc == encode_state(st.val[1], st.val[2], FromOption(val))
       IN  IF IsErr(enc) THEN Panicked(a) ELSE Done(enc.val, "Ok")

\* not with a Null value negated as if it were false.
not_null_as_false(data) ==
  IF IsErr(get_full_state(data)) THEN Panicked(data)
  ELSE LET val == IF value(data) = Some(TRUE) THEN Some(FALSE) ELSE Some(TRUE)
           st == get_full_state(data)
           enc == encode_state(st.val[1], st.val[2], FromOption(val))
       IN  IF IsErr(enc) THEN Panicked(data) ELSE Done(enc.val, "Ok")

\* BooleanOps::not(data) -> PackedBooleanData
not(data) ==
  IF IsErr(get_full_state(data)) THEN Panicked(data)
  ELSE LET val == IF value(data) = None THEN None ELSE Some(~value(data)[1])
           st == get_full_state(data)
           enc == encode_state(st.val[1], st.val[2], FromOption(val))
       IN  IF IsErr(enc) THEN Panicked(data) ELSE Done(enc.val, "Ok")

\* to_sql pushing the DEFAULT clause before the NOT NULL clause.
to_sql_default_first(data) ==
  IF IsErr(get_full_state(data)) THEN Panicked(data)
  ELSE LET sql0 == "BOOLEAN"
           sql1 == IF default_value(data) # None
                   THEN (sql0 \o " DEFAULT ")
                          \o (IF default_value(data)[1] THEN "TRUE" ELSE "FALSE")
                   ELSE sql0
           sql2 == IF not_null(data) THEN sql1 \o " NOT NULL" ELSE sql1
       IN  Done(sql2, "Ok")

\* BooleanOps::to_sql(data) -> String; the outcome's data is the string.
to_sql(data) ==
  IF IsErr(get_full_state(data)) THEN Panicked(data)
  ELSE LET sql0 == "BOOLEAN"
           sql1 == IF not_null(data) THEN sql0 \o " NOT NULL" ELSE sql0
           sql2 == IF default_value(data) # None
                   THEN (sql1 \o " DEFAULT ")
                          \o (IF default_value(data)[1] THEN "TRUE" ELSE "FALSE")
                   ELSE sql1
       IN  Done(sql2, "Ok")

\* BooleanField::new: data is BooleanOps::new_data()
new == new_data

\* From<bool> storing the bool through set_default instead of set_value.
from_bool_sets_default(b) ==
  LET r == set_default(new, b) IN
  IF r.panic \/ r.ret # "Ok" THEN Panicked(new) ELSE Done(r.data, "Ok")

\* impl From<bool> for BooleanField: new(), then set_value(Some(value)).unwrap()
from_bool(b) ==
  LET r == set_value(new, Some(b)) IN
  IF r.panic \/ r.ret # "Ok" THEN Panicked(new) ELSE Done(r.data, "Ok")

\* impl From<Option<bool>> for BooleanField: new(), then set_value(value).unwrap()
from_option(v) ==
  LET r == set_value(new, v) IN
  IF r.panic \/ r.ret # "Ok" THEN Panicked(new) ELSE Done(r.data, "Ok")

(* ---------------------------------------------------------------------- *)
(* State                                                                   *)
(* ---------------------------------------------------------------------- *)

VARIABLES
  data,      \* data[f]: the u8 of field f's PackedBooleanData
  last,      \* the last call: operation, operands, argument, data before it,
             \* what it returned (ret: status, out: the PackedBooleanData of and/or)
  panicked,  \* a call panicked; the program has stopped
  triple,    \* codec run: the (not_null, default, value) given to encode_state
  code,      \* codec run: the u8 given to decode_state
  encoded,   \* codec run: encode_state(triple), <<>> before the call
  decoded,   \* codec run: decode_state(code), <<>> before the call
  redecoded, \* codec run: decode_state of the code in encoded
  reencoded, \* codec run: encode_state of the triple in decoded
  reached    \* reachability run: the bytes that sequences of set_not_null,
             \* set_default and set_value calls have made of a new field

fieldVars == <<data, last, panicked, reached>>
codecVars == <<triple, code, encoded, decoded, redecoded, reencoded>>
vars == <<data, last, panicked, triple, code, encoded, decoded, redecoded, reencoded,
          reached>>

NoCall ==
  [op |-> "none", f |-> 0, g |-> 0, arg |-> <<>>, pre |-> <<>>, ret |-> "none", out |-> <<>>]
Call(o, f, g, a, r, res) ==
  [op |-> o, f |-> f, g |-> g, arg |-> a, pre |-> data, ret |-> r, out |-> res]

FieldInit ==
  /\ data = [f \in Fields |-> new_data]
  /\ last = NoCall
  /\ panicked = FALSE
  /\ reached = {new_data}

CodecIdle ==
  /\ triple = <<FALSE, Null, Null>>
  /\ code = DefaultData
  /\ encoded = <<>>
  /\ decoded = <<>>
  /\ redecoded = <<>>
  /\ reencoded = <<>>

Init == FieldInit /\ CodecIdle

(* ---------------------------------------------------------------------- *)
(* Field operations                                                        *)
(* ---------------------------------------------------------------------- *)

\* A mutator call on field f with outcome out.
Mutate(o, f, a, out) ==
  /\ ~panicked
  /\ data' = [data EXCEPT ![f] = out.data]
  /\ panicked' = out.panic
  /\ last' = Call(o, f, 0, a, out.ret, <<>>)
  /\ UNCHANGED <<codecVars, reached>>

\* An operator call on fields f and g with outcome out; operands are borrowed.
Operate(o, f, g, out) ==
  /\ ~panicked
  /\ panicked' = out.panic
  /\ last' = Call(o, f, g, <<>>, out.ret, IF out.panic THEN <<>> ELSE <<out.data>>)
  /\ UNCHANGED <<data, codecVars, reached>>

SetNotNull == \E f \in Fields : Mutate("set_not_null", f, <<>>, set_not_null(data[f]))

SetDefault ==
  \E f \in Fields, nd \in BOOLEAN :
    Mutate("set_default", f, <<nd>>, set_default(data[f], nd))

SetValue ==
  \E f \in Fields, v \in OptionOfBool :
    Mutate("set_value", f, <<v>>, set_value(data[f], v))

And == \E f \in Fields, g \in Fields : Operate("and", f, g, and(data[f], data[g]))

Or == \E f \in Fields, g \in Fields : Operate("or", f, g, or(data[f], data[g]))

Not == \E f \in Fields : Operate("not", f, 0, not(data[f]))

ToSql == \E f \in Fields : Operate("to_sql", f, 0, to_sql(data[f]))

\* not() applied to the state the preceding not() returned: a.not().not().
NotNot ==
  /\ last.op = "not"
  /\ last.out # <<>>
  /\ Operate("not_not", last.f, 0, not(last.out[1]))

Next == SetNotNull \/ SetDefault \/ SetValue \/ And \/ Or \/ Not \/ ToSql \/ NotNot

Spec == Init /\ [][Next]_vars

(* ---------------------------------------------------------------------- *)
(* Construction: a field variable is given a newly constructed field        *)
(* ---------------------------------------------------------------------- *)

\* Field f is replaced by the field a constructor returned; a constructor
\* that panics returns nothing.
Construct(o, f, a, out) ==
  /\ ~panicked
  /\ data' = IF out.panic THEN data ELSE [data EXCEPT ![f] = out.data]
  /\ panicked' = out.panic
  /\ last' = Call(o, f, 0, a, out.ret, <<>>)
  /\ UNCHANGED <<codecVars, reached>>

New == \E f \in Fields : Construct("new", f, <<>>, Done(new, "Ok"))

FromBool == \E f \in Fields, b \in BOOLEAN : Construct("from_bool", f, <<b>>, from_bool(b))

FromOptional ==
  \E f \in Fields, v \in OptionOfBool : Construct("from_option", f, <<v>>, from_option(v))

ConstructNext == New \/ FromBool \/ FromOptional \/ SetNotNull \/ SetDefault \/ SetValue

ConstructSpec == Init /\ [][ConstructNext]_vars

(* ---------------------------------------------------------------------- *)
(* Reachability run: the mutators applied to every byte made so far         *)
(* ---------------------------------------------------------------------- *)

\* A mutator call on a field holding a byte already made; a call that
\* panics makes no byte.
Reach(out) ==
  /\ ~out.panic
  /\ reached' = reached \cup {out.data}
  /\ UNCHANGED <<data, last, panicked, codecVars>>

ReachSetNotNull == \E c \in reached : Reach(set_not_null(c))

ReachSetDefault == \E c \in reached, nd \in BOOLEAN : Reach(set_default(c, nd))

ReachSetValue == \E c \in reached, v \in OptionOfBool : Reach(set_value(c, v))

ReachNext == ReachSetNotNull \/ ReachSetDefault \/ ReachSetValue

ReachSpec == Init /\ [][ReachNext]_vars

(* ---------------------------------------------------------------------- *)
(* Codec runs: encode_state and decode_state applied to drawn inputs       *)
(* ---------------------------------------------------------------------- *)

Triples == BOOLEAN \X OptionBool \X OptionBool

CodecInit ==
  /\ FieldInit
  /\ triple \in Triples
  /\ code \in U8
  /\ encoded = <<>>
  /\ decoded = <<>>
  /\ redecoded = <<>>
  /\ reencoded = <<>>

Encode ==
  /\ encoded = <<>>
  /\ encoded' = <<encode_state(triple[1], triple[2], triple[3])>>
  /\ UNCHANGED <<triple, code, decoded, redecoded, reencoded, fieldVars>>

Decode ==
  /\ decoded = <<>>
  /\ decoded' = <<decode_state(code)>>
  /\ UNCHANGED <<triple, code, encoded, redecoded, reencoded, fieldVars>>

DecodeEncoded ==
  /\ encoded # <<>>
  /\ IsOk(encoded[1])
  /\ redecoded = <<>>
  /\ redecoded' = <<decode_state(encoded[1].val)>>
  /\ UNCHANGED <<triple, code, encoded, decoded, reencoded, fieldVars>>

EncodeDecoded ==
  /\ decoded # <<>>
  /\ IsOk(decoded[1])
  /\ reencoded = <<>>
  /\ reencoded' = <<encode_state(decoded[1].val[1], decoded[1].val[2], decoded[1].val[3])>>
  /\ UNCHANGED <<triple, code, encoded, decoded, redecoded, fieldVars>>

CodecNext == Encode \/ Decode \/ DecodeEncoded \/ EncodeDecoded

CodecSpec == CodecInit /\ [][CodecNext]_vars

(* ---------------------------------------------------------------------- *)
(* Properties                                                              *)
(* ---------------------------------------------------------------------- *)

\* The 13 codes of the table of legal triples.
LegalCodes == {0, 1, 2, 4, 5, 6, 8, 9, 10, 16, 17, 20, 21}

\* The table of legal triples and their codes, as <<triple, code>> pairs.
CodeTable ==
  { <<<<FALSE, False, False>>, 0>>, <<<<FALSE, False, True>>, 1>>,
    <<<<FALSE, False, Null>>, 2>>, <<<<FALSE, True, False>>, 4>>,
    <<<<FALSE, True, True>>, 5>>, <<<<FALSE, True, Null>>, 6>>,
    <<<<FALSE, Null, False>>, 8>>, <<<<FALSE, Null, True>>, 9>>,
    <<<<FALSE, Null, Null>>, 10>>, <<<<TRUE, False, False>>, 16>>,
    <<<<TRUE, False, True>>, 17>>, <<<<TRUE, True, False>>, 20>>,
    <<<<TRUE, True, True>>, 21>> }

\* The triple the table gives for a legal code.
TripleOf(c) == (CHOOSE p \in CodeTable : p[2] = c)[1]

\* C1: after any sequence of set_not_null, set_default and set_value calls,
\* successful or failing, every field holds one of the 13 legal codes,
\* get_full_state does not panic on it, and a NOT NULL field has neither a
\* Null value nor a Null default.
C1_Legality ==
  \A f \in Fields :
    /\ data[f] \in LegalCodes
    /\ IsOk(get_full_state(data[f]))
    /\ not_null(data[f]) =>
         value(data[f]) # None /\ default_value(data[f]) # None

\* C1 witness: a rejected set_value(None) on a NOT NULL field holding 21.
C1_Witness ==
  /\ last.op = "set_value"
  /\ last.ret = "Field cannot be NULL"
  /\ data[last.f] = 21

\* C2: every AND(a, b) and OR(a, b) over legal states returns a legal state
\* and does not panic.
C2_AndOrTotal ==
  last.op \in {"and", "or"} =>
    /\ ~panicked
    /\ last.out # <<>>
    /\ last.out[1] \in LegalCodes

\* C3 as stated: new field, set_not_null, then set_default(true) leaves
\* value = True.
C3_RepairThenDefaultTrue ==
  [][ ( /\ last.op = "set_not_null"
        /\ last.pre[last.f] = DefaultData
        /\ last'.op = "set_default"
        /\ last'.f = last.f
        /\ last'.arg = <<TRUE>> )
      => value(data'[last.f]) = Some(TRUE) ]_vars

\* C3 amended: new field, set_not_null, then set_default(true) leaves
\* default = True and value = False, the value set_not_null repaired.
C3_RepairThenDefaultKeepsFalse ==
  [][ ( /\ last.op = "set_not_null"
        /\ last.pre[last.f] = DefaultData
        /\ last'.op = "set_default"
        /\ last'.f = last.f
        /\ last'.arg = <<TRUE>> )
      => /\ ~panicked'
         /\ value(data'[last.f]) = Some(FALSE)
         /\ default_value(data'[last.f]) = Some(TRUE)
         /\ not_null(data'[last.f]) ]_vars

\* C3 witness: set_default(true) has acted on (true, False, False), the
\* state set_not_null makes of a new field, and left (true, True, False).
C3_Witness ==
  /\ last.op = "set_default"
  /\ last.arg = <<TRUE>>
  /\ last.pre[last.f] = 16
  /\ data[last.f] = 20

\* C4: on a NOT NULL field set_value(None) returns the error
\* "Field cannot be NULL" and leaves every field's byte as it was.
C4_NullRejected ==
  ( /\ last.op = "set_value"
    /\ last.arg = <<None>>
    /\ not_null(last.pre[last.f]) )
  => /\ last.ret = "Field cannot be NULL"
     /\ ~panicked
     /\ data = last.pre

\* C4 witness: set_value(None) rejected on (true, False, True).
C4_Witness ==
  /\ last.op = "set_value"
  /\ last.arg = <<None>>
  /\ last.pre[last.f] = 17
  /\ last.ret = "Field cannot be NULL"
  /\ data[last.f] = 17

\* C5: set_value(v) fails exactly when the field is NOT NULL and v is None;
\* otherwise it returns Ok, the value is v afterwards, and not_null and
\* default are as before. The only error is "Field cannot be NULL".
C5_SetValue ==
  last.op = "set_value" =>
    LET before == last.pre[last.f]
        after == data[last.f]
        v == last.arg[1]
        rejected == not_null(before) /\ v = None
    IN  /\ ~panicked
        /\ last.ret \in {"Ok", "Field cannot be NULL"}
        /\ (last.ret # "Ok") <=> rejected
        /\ ~rejected =>
             /\ value(after) = v
             /\ not_null(after) = not_null(before)
             /\ default_value(after) = default_value(before)
        /\ \A g \in Fields \ {last.f} : data[g] = last.pre[g]

\* C5 witness: set_value(None) accepted on the nullable (false, True, True).
C5_Witness ==
  /\ last.op = "set_value"
  /\ last.arg = <<None>>
  /\ last.pre[last.f] = 5
  /\ last.ret = "Ok"
  /\ data[last.f] = 6

\* C6: set_not_null never fails and takes (n, d, v) to (true, d', v') with
\* d' = False if d is Null else d, and v' = d' if v is Null else v.
C6_SetNotNull ==
  last.op = "set_not_null" =>
    LET t == TripleOf(last.pre[last.f])
        d1 == IF t[2] = Null THEN False ELSE t[2]
        v1 == IF t[3] = Null THEN d1 ELSE t[3]
    IN  /\ ~panicked
        /\ last.ret = "Ok"
        /\ data[last.f] \in LegalCodes
        /\ TripleOf(data[last.f]) = <<TRUE, d1, v1>>
        /\ not_null(data[last.f])
        /\ \A g \in Fields \ {last.f} : data[g] = last.pre[g]

\* C6 witness: set_not_null took (false, True, Null) to (true, True, True).
C6_Witness ==
  /\ last.op = "set_not_null"
  /\ last.pre[last.f] = 6
  /\ data[last.f] = 21

\* C7: a set_not_null that directly follows a set_not_null on the same
\* field changes nothing.
C7_SetNotNullIdempotent ==
  [][ ( /\ last.op = "set_not_null"
        /\ last'.op = "set_not_null"
        /\ last'.f = last.f )
      => /\ data' = data
         /\ ~panicked' ]_vars

\* C7 witness: set_not_null has acted on a field that set_not_null had
\* already made (true, True, False), and the byte is the same.
C7_Witness ==
  /\ last.op = "set_not_null"
  /\ last.pre[last.f] = 20
  /\ data[last.f] = 20

\* C8: set_default(nd) never fails and takes (n, d, v) to (n, nd, v') with
\* v' = nd if v is Null and v' = v otherwise.
C8_SetDefault ==
  last.op = "set_default" =>
    LET t == TripleOf(last.pre[last.f])
        nd == IF last.arg[1] THEN True ELSE False
        v1 == IF t[3] = Null THEN nd ELSE t[3]
    IN  /\ ~panicked
        /\ last.ret = "Ok"
        /\ data[last.f] \in LegalCodes
        /\ TripleOf(data[last.f]) = <<t[1], nd, v1>>
        /\ \A g \in Fields \ {last.f} : data[g] = last.pre[g]

\* C8 witness: set_default(true) on a new field; the Null value adopts True.
C8_Witness ==
  /\ last.op = "set_default"
  /\ last.arg = <<TRUE>>
  /\ last.pre[last.f] = 10
  /\ data[last.f] = 5

\* C9: over all 18 triples encode_state returns the table's code for the 13
\* legal ones and the error "Invalid state combination" for the other 5,
\* which are those with not_null and a Null default or value.
C9_EncodeTable ==
  encoded # <<>> =>
    LET illegal == triple[1] /\ (triple[2] = Null \/ triple[3] = Null) IN
    /\ illegal <=> ~(\E p \in CodeTable : p[1] = triple)
    /\ \A p \in CodeTable : p[1] = triple => encoded[1] = Ok(p[2])
    /\ illegal => encoded[1] = Err("Invalid state combination")

\* C9 witness: encode_state has rejected (true, Null, True).
C9_Witness ==
  /\ triple = <<TRUE, Null, True>>
  /\ encoded = <<Err("Invalid state combination")>>

\* C10: decode_state(encode_state(t)) = t for every legal triple t,
\* encode_state(decode_state(c)) = c for every valid code c, and a triple's
\* code equals a code exactly when the triple equals that code's triple.
C10_RoundTrip ==
  /\ redecoded # <<>> => redecoded[1] = Ok(triple)
  /\ reencoded # <<>> => reencoded[1] = Ok(code)
  /\ ( /\ encoded # <<>> /\ IsOk(encoded[1])
       /\ decoded # <<>> /\ IsOk(decoded[1]) )
     => (encoded[1].val = code <=> decoded[1].val = triple)

\* C10 witness: both round trips have run, on (true, True, False) and on 9.
C10_Witness ==
  /\ triple = <<TRUE, True, False>>
  /\ redecoded = <<Ok(triple)>>
  /\ code = 9
  /\ reencoded = <<Ok(9)>>

\* C11: over every u8 code decode_state succeeds exactly for the 13 codes of
\* the table and returns the error "Invalid packed state" for every other
\* code; every code that encode_state produced decodes.
C11_DecodeRejects ==
  /\ decoded # <<>> =>
       /\ IsOk(decoded[1]) <=> code \in LegalCodes
       /\ code \notin LegalCodes => decoded[1] = Err("Invalid packed state")
  /\ redecoded # <<>> => IsOk(redecoded[1])

\* C11 witness: decode_state has rejected 18, the slot of (true, False, Null).
C11_Witness ==
  /\ code = 18
  /\ decoded = <<Err("Invalid packed state")>>

\* C12: for every pair of legal states a and b, AND(a, b) returns a state
\* whose value is True if both values are True, False if either is False,
\* and Null otherwise.
C12_AndTable ==
  last.op = "and" =>
    LET av == TripleOf(last.pre[last.f])[3]
        bv == TripleOf(last.pre[last.g])[3]
        expected == IF av = True /\ bv = True THEN True
                    ELSE IF av = False \/ bv = False THEN False
                    ELSE Null
    IN  /\ last.out # <<>>
        /\ value(last.out[1]) = IntoOption(expected)

\* C13: for every pair of legal states a and b, OR(a, b) returns a state
\* whose value is True if either value is True, False if both are False,
\* and Null otherwise.
C13_OrTable ==
  last.op = "or" =>
    LET av == TripleOf(last.pre[last.f])[3]
        bv == TripleOf(last.pre[last.g])[3]
        expected == IF av = True \/ bv = True THEN True
                    ELSE IF av = False /\ bv = False THEN False
                    ELSE Null
    IN  /\ last.out # <<>>
        /\ value(last.out[1]) = IntoOption(expected)

\* C14: NOT(a) never fails and returns a legal state with a's not_null and
\* default, whose value is False for True, True for False and Null for Null;
\* the operand is not modified.
C14_Not ==
  last.op = "not" =>
    LET t == TripleOf(last.pre[last.f])
        flipped == CASE t[3] = True -> False [] t[3] = False -> True [] OTHER -> Null
    IN  /\ ~panicked
        /\ last.out # <<>>
        /\ last.out[1] \in LegalCodes
        /\ TripleOf(last.out[1]) = <<t[1], t[2], flipped>>
        /\ data = last.pre

\* C14 witness: NOT of the nullable (false, True, Null) returned it unchanged.
C14_Witness ==
  /\ last.op = "not"
  /\ last.pre[last.f] = 6
  /\ last.out = <<6>>

\* C15: for every pair of legal states a and b, AND(a, b) and OR(a, b)
\* return a state with a's not_null and a's default, whatever b's are, and
\* leave both operands as they were.
C15_LeftInheritance ==
  last.op \in {"and", "or"} =>
    LET a == TripleOf(last.pre[last.f]) IN
    /\ last.out # <<>>
    /\ last.out[1] \in LegalCodes
    /\ TripleOf(last.out[1])[1] = a[1]
    /\ TripleOf(last.out[1])[2] = a[2]
    /\ data = last.pre

\* C16: to_sql returns "BOOLEAN", then " NOT NULL" exactly when not_null,
\* then " DEFAULT TRUE" or " DEFAULT FALSE" for a True or False default and
\* nothing for a Null one; the text does not depend on the value.
C16_ToSql ==
  last.op = "to_sql" =>
    LET t == TripleOf(last.pre[last.f])
        expected ==
          CASE ~t[1] /\ t[2] = Null -> "BOOLEAN"
            [] ~t[1] /\ t[2] = False -> "BOOLEAN DEFAULT FALSE"
            [] ~t[1] /\ t[2] = True -> "BOOLEAN DEFAULT TRUE"
            [] t[1] /\ t[2] = False -> "BOOLEAN NOT NULL DEFAULT FALSE"
            [] t[1] /\ t[2] = True -> "BOOLEAN NOT NULL DEFAULT TRUE"
    IN  /\ ~panicked
        /\ last.out = <<expected>>
        /\ data = last.pre

\* C16 witness: to_sql of (true, True, False) returned the full clause.
C16_Witness ==
  /\ last.op = "to_sql"
  /\ last.pre[last.f] = 20
  /\ last.out = <<"BOOLEAN NOT NULL DEFAULT TRUE">>

\* C17: a default-constructed field holds code 10, (false, Null, Null), and
\* BooleanField::from(v), for every bool and every Option<bool>, never fails
\* and yields (false, Null, v).
C17_Construction ==
  /\ last.op = "none" => \A f \in Fields : data[f] = 10
  /\ last.op = "new" =>
       /\ ~panicked
       /\ data[last.f] = 10
       /\ TripleOf(data[last.f]) = <<FALSE, Null, Null>>
  /\ last.op = "from_bool" =>
       /\ ~panicked
       /\ data[last.f] \in LegalCodes
       /\ TripleOf(data[last.f]) = <<FALSE, Null, IF last.arg[1] THEN True ELSE False>>
  /\ last.op = "from_option" =>
       /\ ~panicked
       /\ data[last.f] \in LegalCodes
       /\ TripleOf(data[last.f]) =
            <<FALSE, Null, CASE last.arg[1] = Some(TRUE) -> True
                             [] last.arg[1] = Some(FALSE) -> False
                             [] OTHER -> Null>>
  /\ last.op \in {"new", "from_bool", "from_option"} =>
       \A g \in Fields \ {last.f} : data[g] = last.pre[g]

\* C17 witness: from(true) has replaced a NOT NULL field by (false, Null, True).
C17_Witness ==
  /\ last.op = "from_bool"
  /\ last.arg = <<TRUE>>
  /\ last.pre[last.f] = 20
  /\ data[last.f] = 9

\* C18: every code encode_state returns is 16*n + 4*d + v, with n = 1 for
\* not_null and False = 0, True = 1, Null = 2 for d and v; so bit 4 of a
\* valid code is set exactly when not_null is true and its low two bits
\* hold the value.
C18_BitLayout ==
  /\ (encoded # <<>> /\ IsOk(encoded[1])) =>
       LET c == encoded[1].val IN
       /\ c = 16 * (IF triple[1] THEN 1 ELSE 0) + 4 * Slot(triple[2]) + Slot(triple[3])
       /\ (c \div 16) % 2 = 1 <=> triple[1]
       /\ c % 4 = Slot(triple[3])
  /\ (decoded # <<>> /\ IsOk(decoded[1])) =>
       /\ (code \div 16) % 2 = 1 <=> decoded[1].val[1]
       /\ code % 4 = Slot(decoded[1].val[3])

\* C18 witness: encode_state has returned 21 = 16 + 4 + 1 for (true, True, True).
C18_Witness ==
  /\ triple = <<TRUE, True, True>>
  /\ encoded = <<Ok(21)>>

\* C19: once a field is NOT NULL it stays NOT NULL across every further
\* set_not_null, set_default and set_value call, successful or failing, and
\* its value and default are then never Null.
C19_NotNullPermanent ==
  /\ [][ \A f \in Fields :
            \/ data'[f] = data[f]
            \/ (IsOk(get_full_state(data[f])) /\ not_null(data[f]))
               => (IsOk(get_full_state(data'[f])) /\ not_null(data'[f])) ]_vars
  /\ [](\A f \in Fields :
          LET st == get_full_state(data[f]) IN
          (IsOk(st) /\ st.val[1]) => (st.val[3] # Null /\ st.val[2] # Null))

\* C19 witness: set_default(false) has acted on the NOT NULL (true, True, True)
\* and left the NOT NULL (true, False, True).
C19_Witness ==
  /\ last.op = "set_default"
  /\ last.arg = <<FALSE>>
  /\ last.pre[last.f] = 21
  /\ data[last.f] = 17

\* C20: no set_not_null, set_default or set_value call makes a non-Null
\* default Null; a set_default or set_not_null call leaves the default
\* non-Null; and a field whose default is Null is in a state that set_value
\* alone makes of a new field.
C20_DefaultNeverReverts ==
  /\ [][ \A f \in Fields :
            \/ data'[f] = data[f]
            \/ default_value(data[f]) # None => default_value(data'[f]) # None ]_vars
  /\ [](last.op \in {"set_default", "set_not_null"}
          => default_value(data[last.f]) # None)
  /\ [](\A f \in Fields :
          default_value(data[f]) = None
          => set_value(new, value(data[f])) = Done(data[f], "Ok"))

\* C20 witness: set_value(None) has acted on (false, True, False) and the
\* default is still True.
C20_Witness ==
  /\ last.op = "set_value"
  /\ last.arg = <<None>>
  /\ last.pre[last.f] = 4
  /\ data[last.f] = 6

\* C22: for every legal state a, NOT(NOT(a)) is the same encoded state as a.
C22_DoubleNegation ==
  last.op = "not_not" =>
    /\ ~panicked
    /\ last.out = <<last.pre[last.f]>>
    /\ data = last.pre

\* C22 witness: NOT(NOT(a)) has returned 17 for a = (true, False, True).
C22_Witness ==
  /\ last.op = "not_not"
  /\ last.pre[last.f] = 17
  /\ last.out = <<17>>

\* C21: every one of the 13 legal codes is made from the default-constructed
\* code 10 by some sequence of set_not_null, set_default and set_value
\* calls: the bytes made so far are legal codes, and as long as one of the
\* 13 is missing some call on a byte already made makes a new one.
C21_AllCodesReachable ==
  LET Closed ==
        \A c \in reached :
          /\ set_not_null(c).data \in reached
          /\ \A nd \in BOOLEAN : set_default(c, nd).data \in reached
          /\ \A v \in OptionOfBool : set_value(c, v).data \in reached
  IN  /\ new_data \in reached
      /\ reached \subseteq LegalCodes
      /\ Closed => reached = LegalCodes

\* C21 witness: all 13 codes have been made.
C21_Witness == reached = {0, 1, 2, 4, 5, 6, 8, 9, 10, 16, 17, 20, 21}

====
